---- MODULE Spec2Model ----
(***************************************************************************)
(* State-machine model of ctapipe_io_lst:                                  *)
(*   - MultiFiles (multifiles.py): k-way merge of sub-stream readers by    *)
(*     ascending event id;                                                 *)
(*   - EventTimeCalculator (event_time.py): per-telescope reconciliation   *)
(*     of UCTS / Dragon / TIB times with UCTS-jump correction.             *)
(* Times are modelled in integer nanoseconds (the code computes seconds as *)
(* float64: seconds = 1e-9 * nanoseconds); float rounding is not modelled. *)
(***************************************************************************)
EXTENDS Integers, Sequences, FiniteSets, TLC

\* ------------------------------------------------------------------ bounds
\* largest number of sub-stream paths handed to MultiFiles
MaxPaths == 2
\* largest total number of event records over all sub-streams
MaxEvents == 3
\* largest number of EventTimeCalculator.__call__ invocations in a run
MaxCalls == 3
\* the same for a run over a subarray of two telescopes
MaxCalls2 == 2

VARIABLES
    \* ---- MultiFiles
    npaths,         \* the argument `paths` is <<1, ..., npaths>>
    disk,           \* path -> [events: Seq(event id), config: kind] (file contents)
    mstate,         \* "new" | "ready" | "ValueError" | "IOError" | "closed"
    file,           \* self._file: set of paths with a File object
    opened,         \* File objects whose handle is open
    cursor,         \* path -> records consumed by the Events reader since start/rewind
    events,         \* self._events: path -> buffered event id, on the buffered paths
    events_table,   \* self._events_table: set of paths whose table is registered
    camera_configs, \* self._camera_config: path -> config record, where one was read
    camera_config,  \* self.camera_config (0: attribute not set)
    out,            \* history: events returned by next_event(), [path, event_id]
    eos,            \* the last next_event() raised StopIteration
    rewound,        \* history: rewind() has been called (at most once per run)
    sinceRewind,    \* history: event ids returned since the last rewind()
    \* ---- EventTimeCalculator
    subarray,       \* self.subarray.tel: the telescope ids
    timestamp,      \* trait `timestamp`: "ucts" | "dragon" | "tib"
    use_first_event, \* trait `use_first_event`
    traits,         \* traits ucts_t0_dragon, dragon_counter0, ucts_t0_tib, tib_counter0
                    \* (<< >> is None, << v >> is the integer v)
    estate,         \* "new" | "ready" | "ValueError" (raised by __init__)
    has_dragon_reference,   \* self._has_dragon_reference: tel -> BOOLEAN
    has_tib_reference,      \* self._has_tib_reference: tel -> BOOLEAN
    ucts_t0_dragon,         \* self._ucts_t0_dragon: tel -> << >> (no value) or << ns >>
    dragon_counter0,        \* self._dragon_counter0
    ucts_t0_tib,            \* self._ucts_t0_tib
    tib_counter0,           \* self._tib_counter0
    previous_ucts_timestamps,     \* tel -> deque of UCTS timestamps
    previous_ucts_trigger_types,  \* tel -> deque of UCTS trigger types
    ncalls,         \* history: number of __call__ invocations
    reconciled,     \* history: tel -> a call got past the UCTS availability check
    njumps,         \* history: tel -> number of calls that found a UCTS jump
    pending,        \* history: tel -> the samples read from event records and not
                    \* yet given to an event, oldest first, each as one record
    last,           \* history: the last __call__: its event, outcome and locals
    \* ---- parse_tib_10MHz_counter
    counter,        \* the argument: << b0, b1, b2 >>, the uint8[3] field of TIB_DTYPE
    promotion,      \* the result type NumPy gives `uint8 scalar << Python int`
    parsed          \* << >> before the call, << value returned >> after it

mfvars == << npaths, disk, mstate, file, opened, cursor, events, events_table,
             camera_configs, camera_config, out, eos, rewound, sinceRewind >>

etvars == << subarray, timestamp, use_first_event, traits, estate,
             has_dragon_reference, has_tib_reference, ucts_t0_dragon, dragon_counter0,
             ucts_t0_tib, tib_counter0, previous_ucts_timestamps,
             previous_ucts_trigger_types, ncalls, reconciled, njumps, pending, last >>

pvars == << counter, promotion, parsed >>

vars == << mfvars, etvars, pvars >>

\* ------------------------------------------------------------- MultiFiles
Paths == 1..npaths

\* event ids carried by the records
EventIds == {1, 2, 3}

\* kinds of CameraConfig table in a file: no such attribute, a table without
\* rows, a table with a configuration record
ConfigKinds == {"none", "empty", "cfg"}

RECURSIVE SumLen(_, _)
SumLen(d, n) == IF n = 0 THEN 0 ELSE Len(d[n].events) + SumLen(d, n - 1)

\* the files a run can be given: n files holding at most `budget` records in all
FilesOfLen(k) == [events : [1..k -> EventIds], config : ConfigKinds]

RECURSIVE Disks(_, _)
Disks(n, budget) ==
    IF n = 0 THEN { << >> }
    ELSE UNION { LET rest == Disks(n - 1, budget - k)
                 IN  { Append(d, f) : d \in rest, f \in FilesOfLen(k) } :
                 k \in 0..budget }

\* mutant: the reader yields the records from the end
ReaderNext_Reverse(content, cur) == content[Len(content) - cur]

\* next(table) of a sequential reader at position cur over records `content`:
\* the record at the cursor, or StopIteration at the end
\* mutant: the reader stops one record early
ReaderHasNext_StopsEarly(content, cur) == cur + 1 < Len(content)
ReaderHasNext(content, cur) == cur < Len(content)
ReaderNext(content, cur) == content[cur + 1]

\* the configuration record of the file at path p is identified by p
ConfigRecord(p) == p

\* paths for which __init__'s try-block reaches the given statement
OpensFile(d, p) == TRUE
BuffersEvent(d, p) == ReaderHasNext(d[p].events, 0)
ReadsConfig(d, p) == BuffersEvent(d, p) /\ d[p].config = "cfg"

\* mutant: the first buffered sub-stream, whatever its event id
MinPath_FirstPath(ev) == CHOOSE p \in DOMAIN ev : \A q \in DOMAIN ev : p <= q

\* mutant: of several minimal items the last one is kept
MinPath_LastTie(ev) ==
    CHOOSE p \in DOMAIN ev :
        /\ \A q \in DOMAIN ev : ev[p] <= ev[q]
        /\ \A q \in DOMAIN ev : (ev[q] = ev[p]) => q <= p

\* min(self._events.items(), key=event_id)[0]: dict order is insertion order,
\* which is path order; min() keeps the first of several minimal items
MinPath(ev) ==
    CHOOSE p \in DOMAIN ev :
        /\ \A q \in DOMAIN ev : ev[p] <= ev[q]
        /\ \A q \in DOMAIN ev : (ev[q] = ev[p]) => p <= q

\* next(iter(self._camera_config.values())): the first inserted value
FirstConfig(cc) == cc[CHOOSE p \in DOMAIN cc : \A q \in DOMAIN cc : p <= q]

\* ---- values of the EventTimeCalculator variables before construction
\* float times in nanoseconds; NaN is np.nan
NaN == [nan |-> TRUE, ns |-> 0]
Ns(x) == [nan |-> FALSE, ns |-> x]

\* trait values: None or an integer
None == << >>
IsNone(x) == x = << >>

NoCall ==
    [ kind |-> "none", tel |-> 0, evt |-> << >>, time |-> NaN,
      ucts_timestamp |-> 0, ucts_trigger_type |-> 0,
      ucts_time |-> NaN, dragon_time |-> NaN, tib_time |-> NaN,
      jump |-> FALSE, anchor |-> FALSE, qlen |-> 0 ]

EtIdle ==
    /\ subarray = {}
    /\ timestamp = "dragon"
    /\ use_first_event = TRUE
    /\ traits = [ucts_t0_dragon |-> None, dragon_counter0 |-> None,
                 ucts_t0_tib |-> None, tib_counter0 |-> None]
    /\ estate = "new"
    /\ has_dragon_reference = << >>
    /\ has_tib_reference = << >>
    /\ ucts_t0_dragon = << >>
    /\ dragon_counter0 = << >>
    /\ ucts_t0_tib = << >>
    /\ tib_counter0 = << >>
    /\ previous_ucts_timestamps = << >>
    /\ previous_ucts_trigger_types = << >>
    /\ ncalls = 0
    /\ reconciled = << >>
    /\ njumps = << >>
    /\ pending = << >>
    /\ last = NoCall

\* ---- values of the parse_tib_10MHz_counter variables when it is not run
ParseIdle ==
    /\ counter = << >>
    /\ promotion = ""
    /\ parsed = << >>

InitMF ==
    /\ npaths \in 0..MaxPaths
    /\ disk \in Disks(npaths, MaxEvents)
    /\ mstate = "new"
    /\ file = {}
    /\ opened = {}
    /\ cursor = [p \in 1..npaths |-> 0]
    /\ events = << >>
    /\ events_table = {}
    /\ camera_configs = << >>
    /\ camera_config = 0
    /\ out = << >>
    /\ eos = FALSE
    /\ rewound = FALSE
    /\ sinceRewind = << >>
    /\ EtIdle
    /\ ParseIdle

\* MultiFiles.__init__ with an empty `paths`
ConstructEmpty ==
    /\ mstate = "new"
    /\ npaths = 0
    /\ mstate' = "ValueError"
    /\ UNCHANGED << npaths, disk, file, opened, cursor, events, events_table,
                    camera_configs, camera_config, out, eos, rewound, sinceRewind >>
    /\ UNCHANGED << etvars, pvars >>

\* MultiFiles.__init__ with a non-empty `paths`
Construct ==
    /\ mstate = "new"
    /\ npaths > 0
    /\ file' = { p \in Paths : OpensFile(disk, p) }
    /\ opened' = { p \in Paths : OpensFile(disk, p) }
    /\ events_table' = { p \in Paths : OpensFile(disk, p) }
    /\ events' = [p \in { q \in Paths : BuffersEvent(disk, q) }
                    |-> ReaderNext(disk[p].events, 0)]
    /\ cursor' = [p \in Paths |-> IF BuffersEvent(disk, p) THEN 1 ELSE 0]
    /\ camera_configs' = [p \in { q \in Paths : ReadsConfig(disk, q) }
                            |-> ConfigRecord(p)]
    /\ IF DOMAIN camera_configs' = {}
          THEN /\ mstate' = "IOError"
               /\ camera_config' = 0
          ELSE /\ mstate' = "ready"
               /\ camera_config' = FirstConfig(camera_configs')
    /\ UNCHANGED << npaths, disk, out, eos, rewound, sinceRewind >>
    /\ UNCHANGED << etvars, pvars >>

\* MultiFiles.next_event when a sub-stream has a buffered event
NextEvent ==
    /\ mstate = "ready"
    /\ DOMAIN events # {}
    /\ LET min_path == MinPath(events)
           next_event == events[min_path]
       IN  /\ IF ReaderHasNext(disk[min_path].events, cursor[min_path])
                 THEN /\ events' = [events EXCEPT ![min_path] =
                               ReaderNext(disk[min_path].events, cursor[min_path])]
                      /\ cursor' = [cursor EXCEPT ![min_path] = @ + 1]
                 ELSE /\ events' = [p \in DOMAIN events \ {min_path} |-> events[p]]
                      /\ cursor' = cursor
           /\ out' = Append(out, [path |-> min_path, event_id |-> next_event])
           /\ sinceRewind' = Append(sinceRewind, next_event)
    /\ eos' = FALSE
    /\ UNCHANGED << npaths, disk, mstate, file, opened, events_table,
                    camera_configs, camera_config, rewound >>
    /\ UNCHANGED << etvars, pvars >>

\* MultiFiles.next_event when no sub-stream has a buffered event
NextEventStop ==
    /\ mstate = "ready"
    /\ DOMAIN events = {}
    /\ ~eos
    /\ eos' = TRUE
    /\ UNCHANGED << npaths, disk, mstate, file, opened, cursor, events, events_table,
                    camera_configs, camera_config, out, rewound, sinceRewind >>
    /\ UNCHANGED << etvars, pvars >>

\* mutant: rewind() also buffers the first record of every sub-stream again
Rewind_Refill ==
    /\ mstate = "ready"
    /\ ~rewound
    /\ events' = [p \in { q \in Paths : BuffersEvent(disk, q) }
                    |-> ReaderNext(disk[p].events, 0)]
    /\ cursor' = [p \in Paths |-> IF BuffersEvent(disk, p) THEN 1 ELSE 0]
    /\ rewound' = TRUE
    /\ sinceRewind' = << >>
    /\ eos' = FALSE
    /\ UNCHANGED << npaths, disk, mstate, file, opened, events_table,
                    camera_configs, camera_config, out >>
    /\ UNCHANGED << etvars, pvars >>

\* MultiFiles.rewind
Rewind ==
    /\ mstate = "ready"
    /\ ~rewound
    /\ cursor' = [p \in Paths |-> IF p \in file THEN 0 ELSE cursor[p]]
    /\ rewound' = TRUE
    /\ sinceRewind' = << >>
    /\ eos' = FALSE
    /\ UNCHANGED << npaths, disk, mstate, file, opened, events, events_table,
                    camera_configs, camera_config, out >>
    /\ UNCHANGED << etvars, pvars >>

\* mutant: the records not yet read are counted
TableLen_Remaining(content, cur) == Len(content) - cur

\* len(table): the number of records of the Events table, wherever its reader is
TableLen(content, cur) == Len(content)

\* MultiFiles.__len__
RECURSIVE SumTables(_)
SumTables(tables) ==
    IF tables = {} THEN 0
    ELSE LET p == CHOOSE q \in tables : TRUE
         IN  TableLen(disk[p].events, cursor[p]) + SumTables(tables \ {p})
total_length == SumTables(events_table)

\* MultiFiles.close / __exit__
Close ==
    /\ mstate = "ready"
    /\ opened' = opened \ file
    /\ mstate' = "closed"
    /\ UNCHANGED << npaths, disk, file, cursor, events, events_table,
                    camera_configs, camera_config, out, eos, rewound, sinceRewind >>
    /\ UNCHANGED << etvars, pvars >>

NextMF ==
    \/ ConstructEmpty
    \/ Construct
    \/ NextEvent
    \/ NextEventStop
    \/ Rewind
    \/ Close

SpecMF == InitMF /\ [][NextMF]_vars

\* ---------------------------------------------------- EventTimeCalculator
\* CENTRAL_MODULE, the default of trait dragon_module_id
CENTRAL_MODULE == 132
\* int(1e9): nanoseconds per pps count
SecNs == 1000000000
\* nanoseconds per 10 MHz count (1e-7 s)
TenMHzNs == 100
\* 1e-6 s, the tolerance of the UCTS / Dragon comparison, in nanoseconds
JumpToleranceNs == 1000

\* the values of the Enum trait `timestamp`
ClockSources == {"ucts", "dragon", "tib"}

\* a - b and a > c on floats: NaN propagates, and compares False
FSub(a, b) == IF a.nan \/ b.nan THEN NaN ELSE Ns(a.ns - b.ns)
FGt(a, c) == ~a.nan /\ a.ns > c

\* ---- the events handed to __call__
\* svc.module_ids tables: the configured module present (second), or absent
ModuleTables == { <<7, 132>>, <<7, 9>> }
\* (pps_counter, tenMHz_counter) of the configured Dragon module
DragonCounters == { <<0, 0>>, <<0, 10>>, <<1, 0>> }
\* (pps_counter, tenMHz_counter) of every other module
OtherModuleCounters == <<0, 30>>
\* (tib_pps_counter, tib_tenMHz_counter) when the TIB is present
TibCounters == { <<0, 10>>, <<1, 0>> }
TibMasks == {4}
\* (ucts_timestamp, ucts_trigger_type) when UCTS is present
UctsTimestamps == {5000, 7000}
TriggerTypes == {1, 2}
\* extdevices_presence: bit 0 TIB, bit 1 UCTS
Presences == 0..3

\* LSTEventContainer defaults of the fields of an absent device
DefaultTib == [pps |-> 0, tenMHz |-> 0, mask |-> 0]
DefaultUcts == [timestamp |-> -1, trigger_type |-> 0]

BitSet(x, b) == (x \div b) % 2 = 1

MakeEvent(table, dc, presence, tib, ucts) ==
    [ module_ids |-> table,
      pps_counter |-> [i \in 1..Len(table) |->
                        IF table[i] = CENTRAL_MODULE THEN dc[1] ELSE OtherModuleCounters[1]],
      tenMHz_counter |-> [i \in 1..Len(table) |->
                        IF table[i] = CENTRAL_MODULE THEN dc[2] ELSE OtherModuleCounters[2]],
      extdevices_presence |-> presence,
      tib_pps_counter |-> tib.pps,
      tib_tenMHz_counter |-> tib.tenMHz,
      tib_masked_trigger |-> tib.mask,
      ucts_timestamp |-> ucts.timestamp,
      ucts_trigger_type |-> ucts.trigger_type ]

TibFields(presence) ==
    IF BitSet(presence, 1)
       THEN { [pps |-> c[1], tenMHz |-> c[2], mask |-> m] : c \in TibCounters, m \in TibMasks }
       ELSE { DefaultTib }

UctsFields(presence) ==
    IF BitSet(presence, 2)
       THEN [timestamp : UctsTimestamps, trigger_type : TriggerTypes]
       ELSE { DefaultUcts }

EventDomain ==
    UNION { { MakeEvent(table, dc, presence, tib, ucts) :
                table \in ModuleTables, dc \in DragonCounters,
                tib \in TibFields(presence), ucts \in UctsFields(presence) } :
            presence \in Presences }

\* ---- configuration
NoReference == [t0 |-> None, c0 |-> None]
SuppliedDragon == { NoReference, [t0 |-> <<5000>>, c0 |-> <<0>>] }
SuppliedTib == { NoReference, [t0 |-> <<5000>>, c0 |-> <<1000>>] }

\* the configurations of a run: every clock source with every combination of
\* supplied references when use_first_event is left at its default (True),
\* and with no supplied reference when it is turned off
Configs ==
    { [timestamp |-> ts, use_first_event |-> TRUE, dragon |-> d, tib |-> t] :
        ts \in ClockSources, d \in SuppliedDragon, t \in SuppliedTib }
    \cup
    { [timestamp |-> ts, use_first_event |-> FALSE, dragon |-> NoReference,
       tib |-> NoReference] : ts \in ClockSources }

\* mutant: another module is taken for the central one
dragon_module_id_Other(tel) == 7

\* self.dragon_module_id.tel[tel_id]
dragon_module_id(tel) == CENTRAL_MODULE

\* self.timestamp == value (lines 196, 197, 250) and
\* self.timestamp.tel[tel_id] == value (lines 358-364): one clock source is
\* configured for all telescopes
TimestampIs(value) == timestamp = value

MfIdle ==
    /\ npaths = 0
    /\ disk = << >>
    /\ mstate = "new"
    /\ file = {}
    /\ opened = {}
    /\ cursor = << >>
    /\ events = << >>
    /\ events_table = {}
    /\ camera_configs = << >>
    /\ camera_config = 0
    /\ out = << >>
    /\ eos = FALSE
    /\ rewound = FALSE
    /\ sinceRewind = << >>

InitET ==
    /\ MfIdle
    /\ ParseIdle
    /\ subarray = {1}
    /\ \E c \in Configs :
          /\ timestamp = c.timestamp
          /\ use_first_event = c.use_first_event
          /\ traits = [ucts_t0_dragon |-> c.dragon.t0, dragon_counter0 |-> c.dragon.c0,
                       ucts_t0_tib |-> c.tib.t0, tib_counter0 |-> c.tib.c0]
    /\ estate = "new"
    /\ has_dragon_reference = [t \in subarray |-> FALSE]
    /\ has_tib_reference = [t \in subarray |-> FALSE]
    /\ ucts_t0_dragon = [t \in subarray |-> None]
    /\ dragon_counter0 = [t \in subarray |-> None]
    /\ ucts_t0_tib = [t \in subarray |-> None]
    /\ tib_counter0 = [t \in subarray |-> None]
    /\ previous_ucts_timestamps = [t \in subarray |-> << >>]
    /\ previous_ucts_trigger_types = [t \in subarray |-> << >>]
    /\ ncalls = 0
    /\ reconciled = [t \in subarray |-> FALSE]
    /\ njumps = [t \in subarray |-> 0]
    /\ pending = [t \in subarray |-> << >>]
    /\ last = NoCall

\* ---- __init__
SuppliedDragonReference == ~IsNone(traits.ucts_t0_dragon) /\ ~IsNone(traits.dragon_counter0)
SuppliedTibReference == ~IsNone(traits.ucts_t0_tib) /\ ~IsNone(traits.tib_counter0)

\* the condition of lines 195-199 under which __init__ raises ValueError
InitRaises ==
    /\ \/ TimestampIs("dragon") /\ ~SuppliedDragonReference
       \/ TimestampIs("tib") /\ ~SuppliedTibReference
    /\ ~use_first_event

\* EventTimeCalculator.__init__
ETInit ==
    /\ estate = "new"
    /\ subarray # {}
    /\ has_dragon_reference' = [t \in subarray |-> SuppliedDragonReference]
    /\ ucts_t0_dragon' = [t \in subarray |->
            IF SuppliedDragonReference THEN traits.ucts_t0_dragon ELSE None]
    /\ dragon_counter0' = [t \in subarray |->
            IF SuppliedDragonReference THEN traits.dragon_counter0 ELSE None]
    /\ has_tib_reference' = [t \in subarray |-> SuppliedTibReference]
    \* `if self._has_tib_reference:` tests the dict, which is not empty here
    /\ ucts_t0_tib' = [t \in subarray |-> traits.ucts_t0_tib]
    /\ tib_counter0' = [t \in subarray |-> traits.tib_counter0]
    /\ estate' = IF InitRaises THEN "ValueError" ELSE "ready"
    /\ UNCHANGED << subarray, timestamp, use_first_event, traits,
                    previous_ucts_timestamps, previous_ucts_trigger_types, ncalls,
                    reconciled, njumps, pending, last >>
    /\ UNCHANGED << mfvars, pvars >>

\* ---- __call__
\* np.where(module_ids == id)[0][0]: the first index holding id; IndexError if none
HasModule(ids, id) == \E i \in 1..Len(ids) : ids[i] = id
ModuleIndex(ids, id) ==
    CHOOSE i \in 1..Len(ids) : ids[i] = id /\ \A j \in 1..(i - 1) : ids[j] # id

\* mutant: UCTS availability read off bit 0
UctsAvailable_Bit0(e) == BitSet(e.extdevices_presence, 1)

\* mutant: the UCTS is taken to be present on every event
UctsAvailable_Always(e) == TRUE

TibAvailable(e) == BitSet(e.extdevices_presence, 1)
UctsAvailable(e) == BitSet(e.extdevices_presence, 2)

\* mutant: the 10 MHz counter added as nanoseconds
calc_dragon_time_Unscaled(e, module_index, reference) ==
    Ns(reference + SecNs * e.pps_counter[module_index] + e.tenMHz_counter[module_index])

\* calc_dragon_time / calc_tib_time, in nanoseconds
calc_dragon_time(e, module_index, reference) ==
    Ns(reference + SecNs * e.pps_counter[module_index]
                 + TenMHzNs * e.tenMHz_counter[module_index])

calc_tib_time(e, reference) ==
    Ns(reference + SecNs * e.tib_pps_counter + TenMHzNs * e.tib_tenMHz_counter)

\* mutant: the 10 MHz counter added as nanoseconds
initial_dragon_counter_Unscaled(e, module_index) ==
    SecNs * e.pps_counter[module_index] + e.tenMHz_counter[module_index]

initial_dragon_counter(e, module_index) ==
    SecNs * e.pps_counter[module_index] + TenMHzNs * e.tenMHz_counter[module_index]

initial_tib_counter(e) ==
    SecNs * e.tib_pps_counter + TenMHzNs * e.tib_tenMHz_counter

\* mutant: an event is an anchor as long as one of the references is missing
IsAnchor_Either(tel) == ~has_dragon_reference[tel] \/ ~has_tib_reference[tel]

\* mutant: the Dragon flag is not consulted
IsAnchor_TibOnly(tel) == ~has_tib_reference[tel]

\* `not self._has_dragon_reference[tel_id] and not self._has_tib_reference[tel_id]`
IsAnchor(tel) == ~has_dragon_reference[tel] /\ ~has_tib_reference[tel]

\* mutant: the availability test inverted
AnchorRaises_Inverted(e) == BitSet(e.extdevices_presence, 1) /\ timestamp = "tib"

\* `if not tib_available and self.timestamp == 'tib': raise ValueError`
AnchorRaises(e) == ~TibAvailable(e) /\ TimestampIs("tib")

\* mutant: a discrepancy of exactly the tolerance counts as a jump
IsJump_Inclusive(ucts_time, dragon_time) ==
    LET d == FSub(ucts_time, dragon_time) IN ~d.nan /\ d.ns >= JumpToleranceNs

\* mutant: a UCTS time behind the Dragon time counts as a jump as well
IsJump_Absolute(ucts_time, dragon_time) ==
    LET d == FSub(ucts_time, dragon_time)
    IN  ~d.nan /\ (d.ns > JumpToleranceNs \/ 0 - d.ns > JumpToleranceNs)

\* `(ucts_time - dragon_time) > 1e-6`
IsJump(ucts_time, dragon_time) == FGt(FSub(ucts_time, dragon_time), JumpToleranceNs)

\* mutant: the TIB mask is never used
JumpTriggerType_Zero(e) == 0

\* trigger type given to an event on which a jump was found
JumpTriggerType(e) == IF TibAvailable(e) THEN e.tib_masked_trigger ELSE 0

\* mutant: anything that is not "ucts" or "dragon" selects the TIB time
SelectFor_TibDefault(selector, ucts_time, dragon_time, tib_time) ==
    IF selector = "ucts" THEN [kind |-> "time", time |-> ucts_time]
    ELSE IF selector = "dragon" THEN [kind |-> "time", time |-> dragon_time]
    ELSE [kind |-> "time", time |-> tib_time]

\* lines 358-367 for a value `selector` of self.timestamp.tel[tel_id]
SelectFor(selector, ucts_time, dragon_time, tib_time) ==
    IF selector = "ucts" THEN [kind |-> "time", time |-> ucts_time]
    ELSE IF selector = "dragon" THEN [kind |-> "time", time |-> dragon_time]
    ELSE IF selector = "tib" THEN [kind |-> "time", time |-> tib_time]
    ELSE [kind |-> "ValueError", time |-> NaN]

\* the selection of the returned time, lines 358-367
SelectTimestamp(ucts_time, dragon_time, tib_time) ==
    SelectFor(timestamp, ucts_time, dragon_time, tib_time)

\* mutant: the sample is put in front of the queue
append_Left(q, x) == << x >> \o q

\* mutant: the sample put back replaces the queue
appendleft_Replace(q, x) == << x >>

\* mutant: the head is read but left in the queue
popleft_rest_Keep(q) == q

\* mutant: the sample put back goes to the end of the queue
appendleft_Back(q, x) == Append(q, x)

\* collections.deque: append, popleft (the value returned and the deque left),
\* appendleft
append(q, x) == Append(q, x)
popleft_value(q) == Head(q)
popleft_rest(q) == Tail(q)
appendleft(q, x) == << x >> \o q

\* The effect of __call__(tel, e) past the UCTS availability check: the new
\* values of the telescope's state, of the event's UCTS fields, and the outcome.
Reconcile(tel, e) ==
    LET module_index == ModuleIndex(e.module_ids, dragon_module_id(tel))
        ucts_timestamp0 == e.ucts_timestamp
        ucts_time0 == Ns(ucts_timestamp0)
        anchor == IsAnchor(tel)
        \* lines 234-283
        dragon_time ==
            IF anchor THEN ucts_time0
            ELSE IF has_dragon_reference[tel]
                 THEN calc_dragon_time(e, module_index,
                                       ucts_t0_dragon[tel][1] - dragon_counter0[tel][1])
                 ELSE NaN
        raises == anchor /\ AnchorRaises(e)
        anchor_tib == anchor /\ ~raises /\ TibAvailable(e)
        tib_time ==
            IF anchor THEN (IF anchor_tib THEN ucts_time0 ELSE NaN)
            ELSE IF has_tib_reference[tel] /\ TibAvailable(e)
                 THEN calc_tib_time(e, ucts_t0_tib[tel][1] - tib_counter0[tel][1])
                 ELSE NaN
        \* lines 306-319
        shift == Len(previous_ucts_timestamps[tel]) > 0
        q1_ts == IF shift THEN append(previous_ucts_timestamps[tel], ucts_timestamp0)
                          ELSE previous_ucts_timestamps[tel]
        q1_tt == IF shift THEN append(previous_ucts_trigger_types[tel], e.ucts_trigger_type)
                          ELSE previous_ucts_trigger_types[tel]
        ucts_timestamp1 == IF shift THEN popleft_value(q1_ts) ELSE ucts_timestamp0
        ucts_trigger_type1 == IF shift THEN popleft_value(q1_tt) ELSE e.ucts_trigger_type
        q2_ts == IF shift THEN popleft_rest(q1_ts) ELSE q1_ts
        q2_tt == IF shift THEN popleft_rest(q1_tt) ELSE q1_tt
        ucts_time1 == Ns(ucts_timestamp1)
        \* lines 335-355
        jump == IsJump(ucts_time1, dragon_time)
        ucts_time2 == IF jump THEN dragon_time ELSE ucts_time1
        sel == SelectTimestamp(ucts_time2, dragon_time, tib_time)
    IN  IF raises
        THEN [ kind |-> "ValueError", time |-> NaN,
               hd |-> TRUE, ht |-> has_tib_reference[tel],
               t0d |-> << ucts_timestamp0 >>,
               c0d |-> << initial_dragon_counter(e, module_index) >>,
               t0t |-> ucts_t0_tib[tel], c0t |-> tib_counter0[tel],
               q_ts |-> previous_ucts_timestamps[tel],
               q_tt |-> previous_ucts_trigger_types[tel],
               ucts_timestamp |-> e.ucts_timestamp,
               ucts_trigger_type |-> e.ucts_trigger_type,
               ucts_time |-> ucts_time0, dragon_time |-> dragon_time, tib_time |-> NaN,
               jump |-> FALSE, anchor |-> TRUE ]
        ELSE [ kind |-> sel.kind, time |-> sel.time,
               hd |-> IF anchor THEN TRUE ELSE has_dragon_reference[tel],
               ht |-> IF anchor_tib THEN TRUE ELSE has_tib_reference[tel],
               t0d |-> IF anchor THEN << ucts_timestamp0 >> ELSE ucts_t0_dragon[tel],
               c0d |-> IF anchor THEN << initial_dragon_counter(e, module_index) >>
                                 ELSE dragon_counter0[tel],
               t0t |-> IF anchor_tib THEN << ucts_timestamp0 >> ELSE ucts_t0_tib[tel],
               c0t |-> IF anchor_tib THEN << initial_tib_counter(e) >> ELSE tib_counter0[tel],
               q_ts |-> IF jump THEN appendleft(q2_ts, ucts_timestamp1) ELSE q2_ts,
               q_tt |-> IF jump THEN appendleft(q2_tt, ucts_trigger_type1) ELSE q2_tt,
               ucts_timestamp |-> IF jump THEN dragon_time.ns ELSE ucts_timestamp1,
               ucts_trigger_type |-> IF jump THEN JumpTriggerType(e) ELSE ucts_trigger_type1,
               ucts_time |-> ucts_time2, dragon_time |-> dragon_time, tib_time |-> tib_time,
               jump |-> jump, anchor |-> anchor ]

\* what `last` records of a call that left at line 215 (IndexError) or line 225
\* (NAN_TIME)
EarlyExit(tel, e, kind) ==
    [ kind |-> kind, tel |-> tel, evt |-> e, time |-> NaN,
      ucts_timestamp |-> e.ucts_timestamp, ucts_trigger_type |-> e.ucts_trigger_type,
      ucts_time |-> NaN, dragon_time |-> NaN, tib_time |-> NaN,
      jump |-> FALSE, anchor |-> FALSE,
      qlen |-> Len(previous_ucts_timestamps[tel]) ]

\* mutant: one value shared by all telescopes
SetTel_Shared(d, tel, value) == [t \in DOMAIN d |-> value]

\* `self._x[tel_id] = value` on a dict keyed by telescope id
SetTel(d, tel, value) == [d EXCEPT ![tel] = value]

\* the UCTS sample an event record carries
SampleOf(e) == [ucts_timestamp |-> e.ucts_timestamp,
                ucts_trigger_type |-> e.ucts_trigger_type]

etstate == << has_dragon_reference, has_tib_reference, ucts_t0_dragon, dragon_counter0,
              ucts_t0_tib, tib_counter0, previous_ucts_timestamps,
              previous_ucts_trigger_types >>

\* EventTimeCalculator.__call__(tel_id, event)
ETCall(tel, e) ==
    /\ estate = "ready"
    /\ ncalls < MaxCalls
    /\ ncalls' = ncalls + 1
    /\ IF ~HasModule(e.module_ids, dragon_module_id(tel))
       THEN /\ last' = EarlyExit(tel, e, "IndexError")
            /\ UNCHANGED << etstate, reconciled, njumps, pending >>
       ELSE IF ~UctsAvailable(e)
       THEN /\ last' = EarlyExit(tel, e, "NAN_TIME")
            /\ UNCHANGED << etstate, reconciled, njumps, pending >>
       ELSE LET r == Reconcile(tel, e)
            IN  /\ reconciled' = [reconciled EXCEPT ![tel] = TRUE]
                /\ njumps' = [njumps EXCEPT ![tel] = IF r.jump THEN @ + 1 ELSE @]
                /\ pending' = [pending EXCEPT ![tel] =
                        IF r.kind = "ValueError" THEN @
                        ELSE IF r.jump THEN Append(@, SampleOf(e))
                        ELSE Tail(Append(@, SampleOf(e)))]
                /\ has_dragon_reference' = SetTel(has_dragon_reference, tel, r.hd)
                /\ has_tib_reference' = SetTel(has_tib_reference, tel, r.ht)
                /\ ucts_t0_dragon' = SetTel(ucts_t0_dragon, tel, r.t0d)
                /\ dragon_counter0' = SetTel(dragon_counter0, tel, r.c0d)
                /\ ucts_t0_tib' = SetTel(ucts_t0_tib, tel, r.t0t)
                /\ tib_counter0' = SetTel(tib_counter0, tel, r.c0t)
                /\ previous_ucts_timestamps' =
                        SetTel(previous_ucts_timestamps, tel, r.q_ts)
                /\ previous_ucts_trigger_types' =
                        SetTel(previous_ucts_trigger_types, tel, r.q_tt)
                /\ last' = [ kind |-> r.kind, tel |-> tel, evt |-> e, time |-> r.time,
                             ucts_timestamp |-> r.ucts_timestamp,
                             ucts_trigger_type |-> r.ucts_trigger_type,
                             ucts_time |-> r.ucts_time, dragon_time |-> r.dragon_time,
                             tib_time |-> r.tib_time, jump |-> r.jump,
                             anchor |-> r.anchor,
                             qlen |-> Len(previous_ucts_timestamps[tel]) ]
    /\ UNCHANGED << subarray, timestamp, use_first_event, traits, estate >>
    /\ UNCHANGED << mfvars, pvars >>

Call == \E tel \in subarray, e \in EventDomain : ETCall(tel, e)

NextET ==
    \/ ETInit
    \/ Call

SpecET == InitET /\ [][NextET]_vars

\* ---- a subarray of two telescopes
\* the configurations of the two-telescope runs: "ucts" with use_first_event
\* at its default and every combination of supplied references
Configs2 == { c \in Configs : c.timestamp = "ucts" /\ c.use_first_event }

InitET2 ==
    /\ MfIdle
    /\ ParseIdle
    /\ subarray = {1, 2}
    /\ \E c \in Configs2 :
          /\ timestamp = c.timestamp
          /\ use_first_event = c.use_first_event
          /\ traits = [ucts_t0_dragon |-> c.dragon.t0, dragon_counter0 |-> c.dragon.c0,
                       ucts_t0_tib |-> c.tib.t0, tib_counter0 |-> c.tib.c0]
    /\ estate = "new"
    /\ has_dragon_reference = [t \in subarray |-> FALSE]
    /\ has_tib_reference = [t \in subarray |-> FALSE]
    /\ ucts_t0_dragon = [t \in subarray |-> None]
    /\ dragon_counter0 = [t \in subarray |-> None]
    /\ ucts_t0_tib = [t \in subarray |-> None]
    /\ tib_counter0 = [t \in subarray |-> None]
    /\ previous_ucts_timestamps = [t \in subarray |-> << >>]
    /\ previous_ucts_trigger_types = [t \in subarray |-> << >>]
    /\ ncalls = 0
    /\ reconciled = [t \in subarray |-> FALSE]
    /\ njumps = [t \in subarray |-> 0]
    /\ pending = [t \in subarray |-> << >>]
    /\ last = NoCall

Call2 == ncalls < MaxCalls2 /\ Call

NextET2 ==
    \/ ETInit
    \/ Call2

SpecET2 == InitET2 /\ [][NextET2]_vars

\* ------------------------------------------------ parse_tib_10MHz_counter
\* number of values of np.uint8
UInt8Range == 256
\* number of bits of np.uint8
UInt8Bits == 8

\* byte values of the counter field
Bytes == {0, 1, 128, 255}

\* The type of `np.uint8 scalar (op) Python int` depends on the NumPy of the
\* build: "int64" under value-based promotion of scalars (NumPy 1), "uint8"
\* when the Python int is weakly typed (NumPy 2).
Promotions == {"int64", "uint8"}

RECURSIVE Pow2(_)
Pow2(n) == IF n = 0 THEN 1 ELSE 2 * Pow2(n - 1)

\* x << n with x a uint8 scalar: in int64, or in uint8, where a shift by the
\* width or more gives 0
LeftShift(x, n, mode) ==
    IF mode = "int64" THEN x * Pow2(n)
    ELSE IF n >= UInt8Bits THEN 0 ELSE (x * Pow2(n)) % UInt8Range

\* x + y in the result type
Plus(x, y, mode) == IF mode = "int64" THEN x + y ELSE (x + y) % UInt8Range

\* counter[0] + (counter[1] << 8) + (counter[2] << 16)
parse_tib_10MHz_counter(c, mode) ==
    Plus(Plus(c[1], LeftShift(c[2], 8, mode), mode), LeftShift(c[3], 16, mode), mode)

InitTIB ==
    /\ MfIdle
    /\ EtIdle
    /\ counter \in [1..3 -> Bytes]
    /\ promotion \in Promotions
    /\ parsed = << >>

\* a call parse_tib_10MHz_counter(counter)
Parse ==
    /\ parsed = << >>
    /\ counter # << >>
    /\ parsed' = << parse_tib_10MHz_counter(counter, promotion) >>
    /\ UNCHANGED << counter, promotion, mfvars, etvars >>

NextTIB == Parse

SpecTIB == InitTIB /\ [][NextTIB]_vars

\* ------------------------------------------------- MultiFiles: properties
Constructed == mstate \in {"ready", "closed"}

IsSorted(sq) == \A i, j \in 1..Len(sq) : i <= j => sq[i] <= sq[j]

AllSorted == \A p \in Paths : IsSorted(disk[p].events)

OutIds == [i \in 1..Len(out) |-> out[i].event_id]

\* the events of `out` that came from path p, in output order
RECURSIVE OutOf(_, _)
OutOf(o, p) ==
    IF o = << >> THEN << >>
    ELSE IF o[1].path = p THEN << o[1].event_id >> \o OutOf(Tail(o), p)
         ELSE OutOf(Tail(o), p)

IsPrefix(a, b) == Len(a) <= Len(b) /\ \A i \in 1..Len(a) : a[i] = b[i]

\* event ids a merger yields from buffered heads ev and reader positions cur
\* until next_event() raises StopIteration
RECURSIVE DrainIds(_, _)
DrainIds(ev, cur) ==
    IF DOMAIN ev = {} THEN << >>
    ELSE LET p == MinPath(ev)
         IN  << ev[p] >> \o
             ( IF ReaderHasNext(disk[p].events, cur[p])
                  THEN DrainIds([ev EXCEPT ![p] = ReaderNext(disk[p].events, cur[p])],
                                [cur EXCEPT ![p] = @ + 1])
                  ELSE DrainIds([q \in DOMAIN ev \ {p} |-> ev[q]], cur) )

\* the event-id sequence a freshly constructed merger yields over `disk`
FreshIds ==
    DrainIds([p \in { q \in Paths : BuffersEvent(disk, q) } |-> ReaderNext(disk[p].events, 0)],
             [p \in Paths |-> IF BuffersEvent(disk, p) THEN 1 ELSE 0])

\* C1: over sub-streams each sorted by event id, the events returned by
\* next_event() from construction on (no rewind) are non-decreasing in event id.
C1_MergedOutputSorted ==
    (Constructed /\ ~rewound /\ AllSorted) => IsSorted(OutIds)

\* C1 witness: two sorted sub-streams were interleaved up to end-of-stream
C1_Witness ==
    /\ eos /\ ~rewound /\ AllSorted
    /\ npaths = 2 /\ Len(out) = 3
    /\ out[1].path = 2 /\ out[2].path = 1 /\ out[3].path = 2
    /\ out[1].event_id < out[2].event_id /\ out[2].event_id < out[3].event_id

\* C2: without rewind the merge yields every event of every sub-stream exactly
\* once and in bounded time: the events returned from each sub-stream are a
\* prefix of its records, a sub-stream is buffered exactly while it has
\* unreturned records (so an exhausted one never blocks the others), and at
\* end-of-stream nothing is buffered and the number of events returned is the
\* sum of the sub-stream lengths.
C2_ExactlyOnce ==
    (Constructed /\ ~rewound) =>
        /\ \A p \in Paths :
              /\ IsPrefix(OutOf(out, p), disk[p].events)
              /\ (p \in DOMAIN events) <=> (Len(OutOf(out, p)) < Len(disk[p].events))
        /\ Len(out) <= SumLen(disk, npaths)
        /\ eos => /\ DOMAIN events = {}
                  /\ Len(out) = SumLen(disk, npaths)
                  /\ \A p \in Paths : OutOf(out, p) = disk[p].events

\* C2 witness: end-of-stream after a sub-stream ran out before the other one
C2_Witness ==
    /\ eos /\ ~rewound /\ npaths = 2
    /\ Len(disk[1].events) = 1 /\ Len(disk[2].events) = 2
    /\ Len(out) = 3 /\ out[1].path = 1

\* C3 (as claimed): after rewind(), iterating to end-of-stream yields the
\* event-id sequence of a freshly constructed merger.
C3_RewindIdempotent ==
    (mstate = "ready" /\ rewound /\ eos) => sinceRewind = FreshIds

\* C8 (as claimed): construction fails with ValueError (EmptyInput) exactly on
\* an empty path collection, with nothing opened, and with IOError
\* (ConfigurationMissing) exactly when no sub-stream carries a configuration
\* record; otherwise it succeeds.
C8_ConstructionErrors ==
    (mstate # "new") =>
        /\ (mstate = "ValueError") <=> (npaths = 0)
        /\ (mstate = "ValueError") => (file = {} /\ opened = {})
        /\ (mstate = "IOError") <=>
              (npaths > 0 /\ \A p \in Paths : disk[p].config # "cfg")

\* ---------------------------------------- EventTimeCalculator: properties
\* a call has been made, and `last` describes it
Called == last.kind # "none"
\* the last call got past the module lookup and the UCTS availability check
Reconciled == last.kind \in {"time", "ValueError"}

NoReferenceSupplied == ~SuppliedDragonReference /\ ~SuppliedTibReference

\* the counters of the module CENTRAL_MODULE as the event record carries them
CentralPresent(e) == \E i \in DOMAIN e.module_ids : e.module_ids[i] = CENTRAL_MODULE
CentralPps(e) == e.pps_counter[CHOOSE i \in DOMAIN e.module_ids : e.module_ids[i] = CENTRAL_MODULE]
CentralTenMHz(e) ==
    e.tenMHz_counter[CHOOSE i \in DOMAIN e.module_ids : e.module_ids[i] = CENTRAL_MODULE]
DragonCounterNs(e) == 1000000000 * CentralPps(e) + 100 * CentralTenMHz(e)
TibCounterNs(e) == 1000000000 * e.tib_pps_counter + 100 * e.tib_tenMHz_counter
HasUctsBit(e) == (e.extdevices_presence \div 2) % 2 = 1
HasTibBit(e) == e.extdevices_presence % 2 = 1

\* the Dragon time of event e under the telescope's stored Dragon reference
DragonNsOf(tel, e) ==
    ucts_t0_dragon[tel][1] - dragon_counter0[tel][1] + DragonCounterNs(e)
TibNsOf(tel, e) ==
    ucts_t0_tib[tel][1] - tib_counter0[tel][1] + TibCounterNs(e)

\* the Dragon time of the last call's event under the stored reference
LastDragonNs == DragonNsOf(last.tel, last.evt)

\* C4: a jump found on event k with an empty queue (the sample of record k is
\* more than 1 us ahead of k's Dragon time) gives k the Dragon time as UCTS
\* time and timestamp and the TIB mask (0 without TIB) as trigger type; the
\* next reconciled event k+1, when no further jump is found on it, is given the
\* timestamp and trigger type that record k carried.
C4_JumpStep ==
    /\ (ncalls' = ncalls + 1 /\ last'.kind = "time" /\ last'.jump /\ last'.qlen = 0) =>
          /\ last'.evt.ucts_timestamp - LastDragonNs' > 1000
          /\ last'.ucts_time = Ns(LastDragonNs')
          /\ last'.ucts_timestamp = LastDragonNs'
          /\ last'.ucts_trigger_type =
                (IF HasTibBit(last'.evt) THEN last'.evt.tib_masked_trigger ELSE 0)
          /\ (timestamp = "ucts") => last'.time = Ns(LastDragonNs')
    /\ (/\ last.kind = "time" /\ last.jump /\ last.qlen = 0
        /\ ncalls' = ncalls + 1 /\ last'.tel = last.tel
        /\ last'.kind = "time" /\ ~last'.jump) =>
          /\ last'.ucts_timestamp = last.evt.ucts_timestamp
          /\ last'.ucts_trigger_type = last.evt.ucts_trigger_type
          /\ last'.ucts_time = Ns(last.evt.ucts_timestamp)
          /\ (timestamp = "ucts") => last'.time = Ns(last.evt.ucts_timestamp)

C5_NoUctsAlwaysSentinel ==
    (Called /\ ~HasUctsBit(last.evt)) => last.kind = "NAN_TIME"

\* C5 (amended): an event with bit 1 of the presence mask clear whose module
\* table holds the configured Dragon module makes __call__ return NAN_TIME,
\* whatever the counters, the clock source and the state of the calculator.
C5_NoUctsSentinel ==
    (Called /\ ~HasUctsBit(last.evt) /\ CentralPresent(last.evt)) => last.kind = "NAN_TIME"

\* C5 witness: NAN_TIME returned by a calibrated calculator with a queued sample
C5_Witness ==
    /\ last.kind = "NAN_TIME"
    /\ has_dragon_reference[last.tel]
    /\ previous_ucts_timestamps[last.tel] # << >>

\* C6: with no reference supplied and use_first_event on, the first event that
\* gets past the UCTS availability check becomes the Dragon reference
\* (its UCTS timestamp, 1e9 * pps + 100 * tenMHz of the configured module);
\* its Dragon time is its UCTS time and no jump is found on it.
C6_BootstrapStep ==
    (/\ ncalls' = ncalls + 1 /\ Reconciled'
     /\ ~reconciled[last'.tel]
     /\ NoReferenceSupplied /\ use_first_event) =>
        /\ has_dragon_reference'[last'.tel]
        /\ ucts_t0_dragon'[last'.tel] = << last'.evt.ucts_timestamp >>
        /\ dragon_counter0'[last'.tel] = << DragonCounterNs(last'.evt) >>
        /\ last'.dragon_time = Ns(last'.evt.ucts_timestamp)
        /\ ~last'.jump
        /\ (last'.kind = "time") => last'.ucts_time = last'.dragon_time

C6_Bootstrapping == [][C6_BootstrapStep]_vars

\* C6 witness: the first call bootstrapped from an event with non-zero counters
C6_Witness ==
    /\ ncalls = 1 /\ NoReferenceSupplied /\ use_first_event
    /\ last.kind = "time" /\ last.anchor
    /\ dragon_counter0[last.tel] = << 1000000000 >>
    /\ has_tib_reference[last.tel]

C9_NoReferenceNoBootstrapFails ==
    (estate # "new" /\ NoReferenceSupplied /\ ~use_first_event) =>
        /\ estate = "ValueError"
        /\ ~last.anchor
        /\ \A tel \in subarray : ~has_dragon_reference[tel]

\* C10: with "tib" selected and no reference established, the first event that
\* gets past the UCTS availability check, if its TIB bit is clear, makes
\* __call__ raise ValueError (MissingReference).
C10_AnchorStep ==
    (/\ ncalls' = ncalls + 1
     /\ timestamp = "tib"
     /\ ~has_dragon_reference[last'.tel] /\ ~has_tib_reference[last'.tel]
     /\ CentralPresent(last'.evt) /\ HasUctsBit(last'.evt) /\ ~HasTibBit(last'.evt)) =>
        last'.kind = "ValueError"

C11_Step ==
    \A tel \in subarray :
        /\ has_dragon_reference[tel] =>
              /\ has_dragon_reference'[tel]
              /\ ucts_t0_dragon'[tel] = ucts_t0_dragon[tel]
              /\ dragon_counter0'[tel] = dragon_counter0[tel]
        /\ has_tib_reference[tel] =>
              /\ has_tib_reference'[tel]
              /\ ucts_t0_tib'[tel] = ucts_t0_tib[tel]
              /\ tib_counter0'[tel] = tib_counter0[tel]
        /\ (estate' = "ready" /\ SuppliedDragonReference) =>
              /\ has_dragon_reference'[tel]
              /\ ucts_t0_dragon'[tel] = traits.ucts_t0_dragon
              /\ dragon_counter0'[tel] = traits.dragon_counter0
        /\ (estate' = "ready" /\ SuppliedTibReference) =>
              /\ has_tib_reference'[tel]
              /\ ucts_t0_tib'[tel] = traits.ucts_t0_tib
              /\ tib_counter0'[tel] = traits.tib_counter0

C11_ReferencesSetOnce == [][C11_Step]_vars

\* C11 witness: a supplied Dragon reference, with no TIB reference at all, is
\* still the stored one after three calls, the last one on an event whose UCTS
\* and TIB data are present and whose UCTS timestamp differs from the reference
C11_Witness ==
    /\ SuppliedDragonReference /\ ~SuppliedTibReference
    /\ ncalls = 3 /\ last.kind = "time"
    /\ last.evt.extdevices_presence = 3
    /\ last.evt.ucts_timestamp # traits.ucts_t0_dragon[1]
    /\ has_dragon_reference[last.tel] /\ ~has_tib_reference[last.tel]
    /\ ucts_t0_dragon[last.tel] = traits.ucts_t0_dragon

\* C12: the length of a telescope's correction queue (both deques) equals the
\* number of jumps found so far for that telescope; hence a call without jump
\* leaves the length as it was, a call with a jump adds exactly one, and the
\* length never decreases.
C12_QueueLengthCountsJumps ==
    (estate = "ready") =>
        \A tel \in subarray :
            /\ Len(previous_ucts_timestamps[tel]) = njumps[tel]
            /\ Len(previous_ucts_trigger_types[tel]) = njumps[tel]

\* C12 witness: after two jumps a call without jump left two samples queued
C12_Witness ==
    /\ last.kind = "time" /\ ~last.jump /\ last.qlen = 2
    /\ njumps[last.tel] = 2
    /\ Len(previous_ucts_timestamps[last.tel]) = 2

\* ------------------------------------------- MultiFiles: properties (cont.)
\* C13 (as claimed): no file handle opened by the merger is open once the
\* merger is closed, nor once its construction has failed.
C13_HandlesReleased ==
    (mstate \in {"closed", "ValueError", "IOError"}) => opened = {}

\* C14: the value of __len__ is the sum of the record counts of the
\* sub-streams at every point of the merger's life: next_event() and rewind()
\* do not change it.
C14_LenIsTotal ==
    (mstate = "ready") => total_length = SumLen(disk, npaths)

\* C14 witness: __len__ is 3 after a rewind in mid-stream, with one sub-stream
\* exhausted and dropped from the buffer
C14_Witness ==
    /\ mstate = "ready" /\ rewound /\ npaths = 2
    /\ Len(out) = 2 /\ Len(sinceRewind) = 1
    /\ DOMAIN events = {2}
    /\ total_length = 3

\* the first path, in the order of `paths`, with a configuration record
FirstConfigured == CHOOSE p \in Paths :
    /\ disk[p].config = "cfg"
    /\ \A q \in Paths : disk[q].config = "cfg" => p <= q

\* C15 (as claimed): the canonical configuration is that of the first
\* sub-stream, in the order of `paths`, that has a configuration record,
\* sub-streams without events included.
C15_CanonicalConfig ==
    (mstate = "ready") => camera_config = ConfigRecord(FirstConfigured)

\* ----------------------------- EventTimeCalculator: properties (cont.)
\* the three clock times of the last call's event, from the event record as
\* the call left it and the telescope's stored references
ExternalTimeOfLast == Ns(last.ucts_timestamp)
DragonTimeOfLast ==
    IF has_dragon_reference[last.tel] THEN Ns(LastDragonNs) ELSE NaN
TibTimeOfLast ==
    IF has_tib_reference[last.tel] /\ HasTibBit(last.evt)
    THEN Ns(TibNsOf(last.tel, last.evt)) ELSE NaN

\* selector values outside Enum(['ucts', 'dragon', 'tib'])
InvalidSelectors == {"UCTS", "none", ""}

C17_ModuleNotFound ==
    (Called /\ ~CentralPresent(last.evt)) => last.kind = "IndexError"

\* C17 witness: IndexError on an event without UCTS data, after a jump was queued
C17_Witness ==
    /\ last.kind = "IndexError"
    /\ last.evt.extdevices_presence = 0
    /\ njumps[last.tel] = 1 /\ has_dragon_reference[last.tel]

\* C18: a call for one telescope leaves the has-reference flags, the clock
\* references and the correction queue of every other telescope unchanged.
C18_Step ==
    \A B \in subarray :
        (ncalls' = ncalls + 1 /\ last'.tel # B) =>
            /\ has_dragon_reference'[B] = has_dragon_reference[B]
            /\ has_tib_reference'[B] = has_tib_reference[B]
            /\ ucts_t0_dragon'[B] = ucts_t0_dragon[B]
            /\ dragon_counter0'[B] = dragon_counter0[B]
            /\ ucts_t0_tib'[B] = ucts_t0_tib[B]
            /\ tib_counter0'[B] = tib_counter0[B]
            /\ previous_ucts_timestamps'[B] = previous_ucts_timestamps[B]
            /\ previous_ucts_trigger_types'[B] = previous_ucts_trigger_types[B]

C18_TelescopesIndependent == [][C18_Step]_vars

\* C18 witness: telescope 1 was bootstrapped, then telescope 2 from another
\* event; telescope 1 still holds its own reference
C18_Witness ==
    /\ subarray = {1, 2} /\ ncalls = 2
    /\ last.tel = 2 /\ last.kind = "time" /\ last.anchor
    /\ reconciled[1] /\ has_dragon_reference[1] /\ has_dragon_reference[2]
    /\ ucts_t0_dragon[1] = << 5000 >> /\ ucts_t0_dragon[2] = << 7000 >>
    /\ dragon_counter0[1] # dragon_counter0[2]

\* the external sample given to the event of a call made in the current state
\* for telescope tel on event e: the head of the queue, or the event's own
\* sample when the queue is empty; and the queue once that sample is taken
AssignedTimestamp(tel, e) ==
    IF previous_ucts_timestamps[tel] = << >> THEN e.ucts_timestamp
    ELSE Head(previous_ucts_timestamps[tel])
AssignedTriggerType(tel, e) ==
    IF previous_ucts_trigger_types[tel] = << >> THEN e.ucts_trigger_type
    ELSE Head(previous_ucts_trigger_types[tel])
ShiftedTimestamps(tel, e) ==
    IF previous_ucts_timestamps[tel] = << >> THEN << >>
    ELSE Tail(previous_ucts_timestamps[tel]) \o << e.ucts_timestamp >>
ShiftedTriggerTypes(tel, e) ==
    IF previous_ucts_trigger_types[tel] = << >> THEN << >>
    ELSE Tail(previous_ucts_trigger_types[tel]) \o << e.ucts_trigger_type >>

\* C19: a call that gets to the comparison declares a jump exactly when the
\* external time assigned to the event (after queue substitution) is more than
\* 1000 ns ahead of the event's Dragon time; a call that leaves earlier
\* declares none. On a jump the assigned sample is put at the head of both
\* deques, the event's UCTS time and timestamp field become the Dragon time,
\* and its trigger type the TIB mask if bit 0 of the presence mask is set,
\* else 0.
C19_Step ==
    /\ (ncalls' = ncalls + 1 /\ last'.kind # "time") =>
          ~last'.jump /\ njumps' = njumps
    /\ (ncalls' = ncalls + 1 /\ last'.kind = "time") =>
          LET tel == last'.tel
              e == last'.evt
              exceeds ==
                  IF has_dragon_reference'[tel]
                  THEN AssignedTimestamp(tel, e) - LastDragonNs' > 1000
                  ELSE FALSE
          IN  /\ last'.jump = exceeds
              /\ njumps'[tel] = njumps[tel] + (IF exceeds THEN 1 ELSE 0)
              /\ exceeds =>
                    /\ previous_ucts_timestamps'[tel] =
                          << AssignedTimestamp(tel, e) >> \o ShiftedTimestamps(tel, e)
                    /\ previous_ucts_trigger_types'[tel] =
                          << AssignedTriggerType(tel, e) >> \o ShiftedTriggerTypes(tel, e)
                    /\ last'.ucts_time = Ns(LastDragonNs')
                    /\ last'.ucts_timestamp = LastDragonNs'
                    /\ last'.ucts_trigger_type =
                          (IF HasTibBit(e) THEN e.tib_masked_trigger ELSE 0)

C20_Step ==
    (/\ ncalls' = ncalls + 1 /\ last'.kind = "time"
     /\ previous_ucts_timestamps[last'.tel] # << >>) =>
        LET tel == last'.tel
            e == last'.evt
            n == Len(previous_ucts_timestamps[tel])
        IN  /\ ~last'.jump =>
                  /\ last'.ucts_timestamp = Head(previous_ucts_timestamps[tel])
                  /\ last'.ucts_trigger_type = Head(previous_ucts_trigger_types[tel])
                  /\ last'.ucts_time = Ns(Head(previous_ucts_timestamps[tel]))
                  /\ previous_ucts_timestamps'[tel] =
                        Tail(previous_ucts_timestamps[tel]) \o << e.ucts_timestamp >>
                  /\ previous_ucts_trigger_types'[tel] =
                        Tail(previous_ucts_trigger_types[tel]) \o << e.ucts_trigger_type >>
            /\ last'.jump =>
                  /\ previous_ucts_timestamps'[tel] =
                        previous_ucts_timestamps[tel] \o << e.ucts_timestamp >>
                  /\ previous_ucts_trigger_types'[tel] =
                        previous_ucts_trigger_types[tel] \o << e.ucts_trigger_type >>
            /\ previous_ucts_timestamps'[tel][Len(previous_ucts_timestamps'[tel])]
                  = e.ucts_timestamp
            /\ previous_ucts_trigger_types'[tel][Len(previous_ucts_trigger_types'[tel])]
                  = e.ucts_trigger_type
            \* depth 1: the sample is the one read by the previous reconciled call
            /\ (n = 1 /\ last.kind = "time" /\ last.tel = tel /\ ~last'.jump) =>
                  /\ last'.ucts_timestamp = last.evt.ucts_timestamp
                  /\ last'.ucts_trigger_type = last.evt.ucts_trigger_type

C20_QueueShift == [][C20_Step]_vars

\* C20 witness: with two samples queued and no jump, the third call's event is
\* given the sample read two calls earlier, not its own
C20_Witness ==
    /\ ncalls = 3 /\ last.kind = "time" /\ ~last.jump /\ last.qlen = 2
    /\ last.evt.ucts_timestamp = 5000 /\ last.evt.ucts_trigger_type = 2
    /\ last.ucts_timestamp = 7000 /\ last.ucts_trigger_type = 1
    /\ previous_ucts_timestamps[last.tel] = << 5000, 5000 >>
    /\ previous_ucts_trigger_types[last.tel] = << 1, 2 >>

\* C21: a call on an event whose UCTS bit is clear changes nothing: the
\* has-reference flags, the references and both deques of the telescope are as
\* before, the event is not used as anchor, and the event's UCTS timestamp and
\* trigger-type fields are the ones it came with; when the module is in the
\* table the call returns NAN_TIME.
C21_Step ==
    (ncalls' = ncalls + 1 /\ ~HasUctsBit(last'.evt)) =>
        /\ has_dragon_reference' = has_dragon_reference
        /\ has_tib_reference' = has_tib_reference
        /\ ucts_t0_dragon' = ucts_t0_dragon
        /\ dragon_counter0' = dragon_counter0
        /\ ucts_t0_tib' = ucts_t0_tib
        /\ tib_counter0' = tib_counter0
        /\ previous_ucts_timestamps' = previous_ucts_timestamps
        /\ previous_ucts_trigger_types' = previous_ucts_trigger_types
        /\ ~last'.anchor /\ ~last'.jump
        /\ last'.ucts_timestamp = last'.evt.ucts_timestamp
        /\ last'.ucts_trigger_type = last'.evt.ucts_trigger_type
        /\ CentralPresent(last'.evt) => last'.kind = "NAN_TIME"

C21_NoUctsNoEffect == [][C21_Step]_vars

\* C21 witness: NAN_TIME on an event with TIB data only, the first event a
\* calculator without references saw; no reference was taken from it
C21_Witness ==
    /\ ncalls = 1 /\ NoReferenceSupplied /\ use_first_event
    /\ last.kind = "NAN_TIME" /\ last.evt.extdevices_presence = 1
    /\ ~has_dragon_reference[last.tel] /\ ~has_tib_reference[last.tel]

\* ------------------------------------------- MultiFiles: properties (cont.)
\* C22: whatever the order of the ids within a sub-stream, the events returned
\* from it are, in output order, the records its reader yielded, in the order
\* it yielded them: a prefix of the sub-stream's records and, when rewind() was
\* called after k of them were read, a prefix of these k records followed by
\* the records from the start again.
C22_FifoPerSubstream ==
    Constructed =>
        \A p \in Paths :
            IF ~rewound
            THEN IsPrefix(OutOf(out, p), disk[p].events)
            ELSE \E k \in 0..Len(disk[p].events) :
                    IsPrefix(OutOf(out, p),
                             SubSeq(disk[p].events, 1, k) \o disk[p].events)

\* C22 witness: a sub-stream with descending ids came out as it is stored,
\* around an event of the other sub-stream
C22_Witness ==
    /\ eos /\ ~rewound /\ npaths = 2
    /\ disk[1].events = << 3, 1 >> /\ disk[2].events = << 2 >>
    /\ OutIds = << 2, 3, 1 >>

\* C23: next_event() returns a buffered head with the smallest event id of
\* all buffered heads and, of several heads with that id, the one of the
\* earliest path of `paths`.
C23_Step ==
    (Len(out') = Len(out) + 1) =>
        LET o == out'[Len(out')]
        IN  /\ o.path \in DOMAIN events
            /\ o.event_id = events[o.path]
            /\ \A q \in DOMAIN events :
                  /\ o.event_id <= events[q]
                  /\ (events[q] = o.event_id) => o.path <= q

C23_SmallestIdFirstPath == [][C23_Step]_vars

\* C23 witness: the first path's head was returned while the second path holds
\* a head with the same id
C23_Witness ==
    /\ mstate = "ready" /\ npaths = 2 /\ Len(out) = 2
    /\ out[2].path = 1
    /\ 2 \in DOMAIN events /\ events[2] = out[2].event_id

\* ----------------------------- EventTimeCalculator: properties (cont.)
\* C24: a call that starts with an empty queue and whose event's own UCTS
\* timestamp is not more than 1000 ns ahead of its Dragon time (no jump)
\* leaves the event's UCTS timestamp and trigger-type fields as they came and
\* the queue empty.
C24_UntouchedWithoutJump ==
    (/\ last.kind = "time" /\ last.qlen = 0
     /\ ~(/\ has_dragon_reference[last.tel]
          /\ last.evt.ucts_timestamp - LastDragonNs > 1000)) =>
        /\ ~last.jump
        /\ last.ucts_timestamp = last.evt.ucts_timestamp
        /\ last.ucts_trigger_type = last.evt.ucts_trigger_type
        /\ previous_ucts_timestamps[last.tel] = << >>
        /\ previous_ucts_trigger_types[last.tel] = << >>

\* C24 witness: an event whose UCTS timestamp is a second behind its Dragon
\* time, with TIB data, went through unchanged
C24_Witness ==
    /\ last.kind = "time" /\ last.qlen = 0 /\ ~last.anchor
    /\ has_dragon_reference[last.tel]
    /\ LastDragonNs - last.evt.ucts_timestamp > 1000
    /\ HasTibBit(last.evt)
    /\ last.ucts_timestamp = last.evt.ucts_timestamp
    /\ previous_ucts_timestamps[last.tel] = << >>

\* ---------------------------------- parse_tib_10MHz_counter: properties
\* C25 (as claimed): for all bytes b0, b1, b2 the value returned is
\* b0 + 256*b1 + 65536*b2.
C25_BitExact ==
    (parsed # << >>) =>
        parsed[1] = counter[1] + 256 * counter[2] + 65536 * counter[3]

\* ------------------------------------------- MultiFiles: properties (cont.)
\* C26: rewind() leaves the buffered heads, the set of buffered sub-streams
\* and the open files as they are; a sub-stream that is no longer buffered is
\* never buffered again; and the first event returned after rewind() is the
\* smallest of the heads that were buffered when it was called.
C26_Step ==
    /\ (rewound' /\ ~rewound) =>
          /\ events' = events
          /\ file' = file /\ opened' = opened /\ events_table' = events_table
          /\ out' = out
    /\ (mstate = "ready") =>
          \A p \in Paths : (p \notin DOMAIN events) => (p \notin DOMAIN events')
    /\ (rewound /\ sinceRewind = << >> /\ Len(out') = Len(out) + 1) =>
          /\ out'[Len(out')].path \in DOMAIN events
          /\ out'[Len(out')].event_id = events[out'[Len(out')].path]
          /\ sinceRewind' = << events[out'[Len(out')].path] >>

C26_RewindKeepsHeads == [][C26_Step]_vars

\* C26 witness: rewind() was called with the first sub-stream exhausted and
\* the second record of the other one buffered; that head was returned next,
\* the first sub-stream stays away and the reader starts over behind the head
C26_Witness ==
    /\ mstate = "ready" /\ rewound /\ npaths = 2
    /\ disk[1].events = << 1 >> /\ disk[2].events = << 2, 3 >>
    /\ OutIds = << 1, 2, 3 >> /\ sinceRewind = << 3 >>
    /\ DOMAIN events = {2} /\ events[2] = 2

\* ----------------------------- EventTimeCalculator: properties (cont.)
\* the samples (timestamp, trigger type) pending in the queue of a telescope
PendingSamples(tel) ==
    [i \in 1..Len(previous_ucts_timestamps[tel]) |->
        << previous_ucts_timestamps[tel][i], previous_ucts_trigger_types[tel][i] >>]

\* the sample of the last call's event record, and the one the call gave it
LastSampleRead == << last.evt.ucts_timestamp, last.evt.ucts_trigger_type >>
LastSampleGiven == << last.ucts_timestamp, last.ucts_trigger_type >>

\* C27: every call that gets to the queue conserves the samples and their
\* order: the pending samples followed by the sample just read are, in that
\* order, the sample given to the event (none on a jump) followed by the
\* samples pending afterwards; a call that leaves earlier changes nothing.
\* Hence, over any run, the samples read are, in the order read, the samples
\* given to events without jump followed by the pending ones: none is lost,
\* given twice or out of order.
C27_Step ==
    \A tel \in subarray :
        IF ncalls' = ncalls + 1 /\ last'.tel = tel /\ last'.kind = "time"
        THEN (IF last'.jump THEN << >> ELSE << LastSampleGiven' >>) \o PendingSamples(tel)'
                = PendingSamples(tel) \o << LastSampleRead' >>
        ELSE PendingSamples(tel)' = PendingSamples(tel)

C27_SamplesConserved == [][C27_Step]_vars

\* C27 witness: after a jump (the first call) and a second call that was given
\* the first call's sample, the third call was given the second one's, and the
\* third sample is pending
C27_Witness ==
    /\ ncalls = 3 /\ njumps[last.tel] = 1
    /\ last.kind = "time" /\ ~last.jump /\ last.qlen = 1
    /\ LastSampleGiven = << 5000, 2 >> /\ LastSampleRead = << 7000, 1 >>
    /\ PendingSamples(last.tel) = << << 7000, 1 >> >>
    /\ SuppliedDragonReference

\* C28 (as claimed): a call that raises (IndexError for a missing module,
\* ValueError on the anchor event or for an unknown clock source) leaves the
\* flags, the references and the deques of the telescope and the event's UCTS
\* fields as they were; a failed anchor event leaves no Dragon reference.
C28_Step ==
    (ncalls' = ncalls + 1 /\ last'.kind \in {"IndexError", "ValueError"}) =>
        /\ has_dragon_reference' = has_dragon_reference
        /\ has_tib_reference' = has_tib_reference
        /\ ucts_t0_dragon' = ucts_t0_dragon
        /\ dragon_counter0' = dragon_counter0
        /\ ucts_t0_tib' = ucts_t0_tib
        /\ tib_counter0' = tib_counter0
        /\ previous_ucts_timestamps' = previous_ucts_timestamps
        /\ previous_ucts_trigger_types' = previous_ucts_trigger_types
        /\ last'.ucts_timestamp = last'.evt.ucts_timestamp
        /\ last'.ucts_trigger_type = last'.evt.ucts_trigger_type

C29_Step ==
    \A tel \in subarray :
        /\ (ncalls' = ncalls + 1 /\ last'.tel = tel /\ last'.anchor) =>
              /\ ~has_dragon_reference[tel] /\ ~has_tib_reference[tel]
              /\ ~reconciled[tel]
              /\ has_dragon_reference'[tel]
        /\ (estate = "ready" /\ ~has_tib_reference[tel] /\ has_tib_reference'[tel]) =>
              /\ ncalls' = ncalls + 1 /\ last'.tel = tel /\ last'.anchor
              /\ ~has_dragon_reference[tel] /\ has_dragon_reference'[tel]
        /\ (estate = "ready" /\ has_dragon_reference[tel] /\ ~has_tib_reference[tel]) =>
              /\ ~has_tib_reference'[tel]
              /\ (ncalls' = ncalls + 1 /\ last'.tel = tel /\ last'.kind = "time") =>
                    /\ last'.tib_time = NaN
                    /\ (timestamp = "tib") => last'.time = NaN

C29_BootstrapOnce == [][C29_Step]_vars

\* C29 witness: bootstrapped from an event without TIB data; a later event
\* with TIB data has no TIB time and the TIB flag is still unset
C29_Witness ==
    /\ NoReferenceSupplied /\ use_first_event /\ ncalls = 3
    /\ last.kind = "time" /\ ~last.anchor /\ HasTibBit(last.evt)
    /\ has_dragon_reference[last.tel] /\ ~has_tib_reference[last.tel]
    /\ last.tib_time = NaN

\* C30: between calls the two deques of a telescope have the same length,
\* their i-th entries are the timestamp and the trigger type of one and the
\* same event record (the i-th pending sample), and the queue is non-empty
\* only if the telescope has a Dragon reference.
C30_QueuesPaired ==
    (estate = "ready") =>
        \A tel \in subarray :
            /\ Len(previous_ucts_timestamps[tel]) = Len(previous_ucts_trigger_types[tel])
            /\ Len(previous_ucts_timestamps[tel]) = Len(pending[tel])
            /\ \A i \in 1..Len(pending[tel]) :
                  /\ previous_ucts_timestamps[tel][i] = pending[tel][i].ucts_timestamp
                  /\ previous_ucts_trigger_types[tel][i] = pending[tel][i].ucts_trigger_type
            /\ (previous_ucts_timestamps[tel] # << >>) => has_dragon_reference[tel]

\* C30 witness: two samples that differ in both fields are queued in step,
\* under a reference taken from the first event
C30_Witness ==
    /\ NoReferenceSupplied /\ ncalls = 3
    /\ previous_ucts_timestamps[1] = << 7000, 5000 >>
    /\ previous_ucts_trigger_types[1] = << 1, 2 >>
    /\ has_dragon_reference[1]

====
